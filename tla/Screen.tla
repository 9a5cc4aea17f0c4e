------------------------------- MODULE Screen --------------------------------
(***************************************************************************)
(* The screen of a terminal command: support/vterm_shim.c around libvterm, *)
(* and the poll of qt/app.ss that feeds it and draws it into the editor.   *)
(*                                                                         *)
(* libvterm (external) keeps the rows and calls back: cb_damage flags the  *)
(* rows that changed, cb_sb_pushline and cb_sb_popline move lines to and   *)
(* from the scrollback ring.  The poll draws only the flagged rows, by     *)
(* comparing them with a cache of what it drew, and processes Qt events    *)
(* between feeding and drawing: there the window may get another height,   *)
(* but no command of the user runs, since Qt's callbacks are queued        *)
(* (vendor/qt_chez_shim.c) and drained between ticks.                      *)
(***************************************************************************)
EXTENDS Scrollback, SequencesExt

CONSTANTS
    Blank,      \* the text of an empty row
    Heights,    \* bound: the heights of the window
    Contents,   \* bound: what the rows of a screen may read after a write
    ManyDirty,  \* from more dirty rows than this, the whole text is set
    Before,     \* the text of the buffer before the command
    MaxChunks   \* bound: chunks waiting in the channel

ASSUME ScreenAssumption ==
    /\ Blank \in Lines
    /\ Heights \subseteq Nat \ {0} /\ Contents \subseteq Seq(Lines)
    /\ ManyDirty \in Nat
    /\ MaxChunks \in Nat \ {0}

VARIABLES
    screen,     \* the texts of libvterm's rows
    st,         \* JvtState
    chunks,     \* data messages in the channel
    ended,      \* the done message follows them
    height,     \* rows that fit in the buffer's height, 0 when none shows it
    doc,        \* the lines of the editor
    ts,         \* what the poll keeps for the terminal
    due,        \* vterm-render-due?
    poll        \* "idle", or what the poll of this tick does next

channel == <<chunks, ended>>
screenVars == <<vars, screen, st, channel, height, doc, ts, due, poll>>

Range0(n) == 0 .. n - 1

------------------------------------------------------------------------------
(* The shim.                                                               *)

NewState(h) == [rows |-> h, dirty |-> [r \in Range0(h) |-> FALSE], any_damage |-> FALSE,
                is_altscreen |-> FALSE, overrun |-> FALSE]
NoState == NewState(0)
Live == st.rows > 0
shown == height > 0
Rows == Range0(st.rows)

DamageKeepingFlags(j, changed) == [j EXCEPT !.any_damage = TRUE]

\* cb_damage: flags the changed rows below rows.  `overrun': a flag outside
\* the array was written.
CbDamage(j, changed) ==
    LET marked == {r \in changed : r < j.rows} IN
    [j EXCEPT !.dirty = [r \in DOMAIN @ |-> @[r] \/ r \in marked],
              !.any_damage = TRUE,
              !.overrun = @ \/ ~ marked \subseteq DOMAIN j.dirty]

\* cb_sb_pushline: the ring keeps the text of a row that scrolls off.
PushLine(row) == Push(row)

\* cb_sb_popline: the newest text comes back as a row.
PopLine(row) == Pop /\ row = Get(0)

\* cb_settermprop
CbSetTermProp(j, alt) == [j EXCEPT !.is_altscreen = alt]

\* jvt_new: the reset of the screen reports every row.
JvtNew(h) == CbDamage(NewState(h), Range0(h))

Reallocated(j, h) ==
    [j EXCEPT !.rows = h, !.dirty = [r \in Range0(h) |-> TRUE], !.any_damage = TRUE]

ResizedRowsFirst(j, h) == Reallocated(CbDamage([j EXCEPT !.rows = h], Range0(h)), h)

\* jvt_resize: vterm_set_size reports the rows of the new size while rows and
\* the flags are the old ones; then a new array is allocated, all set.
JvtResize(j, h) == Reallocated(CbDamage(j, Range0(h)), h)

\* jvt_clear_damage
ClearDamage(j) == [j EXCEPT !.dirty = [r \in DOMAIN @ |-> FALSE], !.any_damage = FALSE]

\* jvt_get_row_text, jvt_row_dirty, jvt_is_altscreen
RowText(r) == screen[r + 1]
RowDirty(r) == st.dirty[r]
Alt == st.is_altscreen

\* jvt_get_text: the rows without the blank ones at the end.
GetText ==
    LET last == Max({0} \cup {r \in 1 .. st.rows : screen[r] # Blank})
    IN SubSeq(screen, 1, last)

\* libvterm when it reads output (external): rows scroll off, and at last any
\* rows are changed, after any switch between the screens.
ScrollOff == \E row \in Lines : PushLine(row)

JvtWrite ==
    \E new \in Contents, alt \in BOOLEAN :
        LET changed == {r \in Rows : alt # Alt \/ new[r + 1] # screen[r + 1]} IN
        /\ Len(new) = st.rows
        /\ screen' = new
        /\ st' = IF changed = {} THEN st ELSE CbDamage(CbSetTermProp(st, alt), changed)

\* libvterm in vterm_set_size (external) takes a row away or adds one: lines of
\* the normal screen move to and from the ring, also while the other screen
\* shows.
MoveRow ==
    \/ /\ Len(screen) > height
       /\ \/ screen' = Front(screen) /\ UNCHANGED vars
          \/ ~Alt /\ screen' = Tail(screen) /\ PushLine(screen[1])
          \/ Alt /\ screen' = Front(screen) /\ \E row \in Lines : PushLine(row)
    \/ /\ Len(screen) < height
       /\ \/ screen' = Append(screen, Blank) /\ (UNCHANGED vars \/ (Alt /\ Pop))
          \/ ~Alt /\ \E row \in Lines : PopLine(row) /\ screen' = <<row>> \o screen

------------------------------------------------------------------------------
(* The poll: vterm-row-diff-render!, vterm-apply-colors! and their caller.  *)

FreshTs == [pre |-> NULL, offset |-> 0, cache |-> NULL, initialized |-> FALSE]

\* The rendered rows after the text before them, whose last line is empty.
Joined(pre, texts) ==
    IF pre = NULL THEN texts
    ELSE IF texts = <<>> THEN pre ELSE Front(pre) \o texts

AllRows == [r \in Rows |-> RowText(r)]

DrawAllAfterPre ==
    /\ doc' = Joined(ts.pre, GetText)
    /\ ts' = [ts EXCEPT !.cache = AllRows, !.initialized = TRUE]
    /\ st' = ClearDamage(st)

\* The first draw: the whole text, of a full-screen program alone.
DrawAll ==
    LET pre == IF Alt THEN NULL ELSE ts.pre IN
    /\ doc' = Joined(pre, GetText)
    /\ ts' = [ts EXCEPT !.cache = AllRows, !.initialized = TRUE]
    /\ st' = ClearDamage(st)

Dirty == {r \in Rows : RowDirty(r)}
Offset == IF Alt THEN 0 ELSE ts.offset

\* Many dirty rows, or the alternate screen: the whole text again.
DiffAll ==
    LET pre == IF Alt THEN NULL ELSE ts.pre IN
    /\ Alt \/ Cardinality(Dirty) > ManyDirty
    /\ doc' = Joined(pre, GetText)
    /\ ts' = [ts EXCEPT !.cache = AllRows, !.offset = Offset]

\* Few dirty rows: the lines of those whose text is not the cached one.
DiffLines ==
    LET changed == {r \in Dirty : RowText(r) # ts.cache[r]}
        padded == doc \o [i \in 1 .. Max({0, ts.offset + st.rows - Len(doc)}) |-> Blank]
        replaced == [i \in DOMAIN padded |->
            IF i - 1 - ts.offset \in changed THEN RowText(i - 1 - ts.offset) ELSE padded[i]]
        cache == [r \in Rows |-> IF r \in changed THEN RowText(r) ELSE ts.cache[r]]
    IN /\ ~Alt
       /\ Cardinality(Dirty) <= ManyDirty
       /\ doc' = replaced
       /\ ts' = [ts EXCEPT !.cache = cache]

\* vterm-row-diff-render!, when jvt_has_damage
Diff ==
    /\ IF Dirty = {}
         THEN doc' = doc /\ ts' = [ts EXCEPT !.offset = Offset]
         ELSE DiffAll \/ DiffLines
    /\ st' = ClearDamage(st)

------------------------------------------------------------------------------
(* Commands, the reader and the user.                                      *)

\* A command starts: a new screen and ring; its reader owns a new channel.
Start ==
    /\ ~Live /\ poll = "idle" /\ shown
    /\ st' = JvtNew(height)
    /\ screen' = [r \in 1 .. height |-> Blank]
    /\ Clear
    /\ doc' = <<Before, Blank>>
    /\ chunks' = 0 /\ ended' = FALSE
    /\ UNCHANGED <<height, ts, due, poll>>

\* The reader posts output, and at last that the command is done; what it
\* posts within a tick is as good as posted after it.
Post ==
    /\ Live /\ ~ended /\ poll = "idle"
    /\ \/ chunks < MaxChunks /\ chunks' = chunks + 1 /\ ended' = FALSE
       \/ ended' = TRUE /\ chunks' = chunks
    /\ UNCHANGED <<vars, screen, st, height, doc, ts, due, poll>>

\* The window gets another height, between ticks or when the batch lets Qt
\* process events.
ResizeWindow ==
    /\ poll \in {"idle", "events"} /\ shown
    /\ height' \in Heights
    /\ UNCHANGED <<vars, screen, st, channel, doc, ts, due, poll>>

\* The user shows another buffer in the window, or this one again.
UseWindow ==
    /\ poll = "idle"
    /\ height' \in Heights \cup {0}
    /\ UNCHANGED <<vars, screen, st, channel, doc, ts, due, poll>>

\* terminal-cleanup-pty! frees the screen with its ring.
Freed == screen' = <<>> /\ st' = NoState /\ Clear /\ chunks' = 0 /\ ended' = FALSE

\* The user kills the buffer: its window shows another one.
Kill ==
    /\ poll = "idle" /\ Live
    /\ Freed
    /\ height' = 0
    /\ ts' = FreshTs
    /\ due' = TRUE
    /\ UNCHANGED <<doc, poll>>

\* The wrapper changes the ring.
UseRing ==
    /\ Live /\ poll = "idle"
    /\ Clear \/ \E m \in Sizes : SetMax(m)
    /\ UNCHANGED <<screen, st, channel, height, doc, ts, due, poll>>

\* The interval between two draws has passed.
Clock ==
    /\ ~due /\ due' = TRUE
    /\ UNCHANGED <<vars, screen, st, channel, height, doc, ts, poll>>

------------------------------------------------------------------------------
(* One tick of the poll: the size, the channel, the draw.                  *)

\* A window of another size: jvt_resize is called, and libvterm moves the rows,
\* one after the other.
FollowSize ==
    /\ poll = "idle" /\ Live /\ shown /\ height # st.rows
    /\ poll' = "resizing"
    /\ UNCHANGED <<vars, screen, st, channel, height, doc, ts, due>>

MoveLine ==
    /\ poll = "resizing"
    /\ MoveRow
    /\ UNCHANGED <<st, channel, height, doc, ts, due, poll>>

\* The damage is reported, and what was drawn counts no more.
Resized ==
    /\ poll = "resizing" /\ Len(screen) = height
    /\ poll' = "idle"
    /\ st' = JvtResize(st, height)
    /\ ts' = [ts EXCEPT !.cache = NULL, !.initialized = FALSE]
    /\ UNCHANGED <<vars, screen, channel, height, doc, due>>

\* The drain of the channel comes after that.
Draining == poll = "idle" /\ Live /\ (shown => height = st.rows)

\* qt-poll-terminal-pty-batch!: with the first data, the text in the editor
\* becomes the text before the screen, its lines the offset.
SavePre(t) ==
    IF t.pre # NULL THEN t
    ELSE [t EXCEPT !.pre = doc, !.offset = Len(doc)]

\* What follows a batch that leaves this many chunks: the done message, if it is
\* next in the channel.
AfterBatch(left) == IF left = 0 /\ ended THEN "done" ELSE "idle"

\* A batch of n chunks, all of them or a budget's worth: data for a buffer no
\* window shows is dropped.
Batch ==
    /\ Draining /\ chunks > 0
    /\ \E n \in 1 .. chunks :
         /\ chunks' = chunks - n
         /\ IF shown THEN ts' = SavePre(ts) /\ poll' = "writing"
                     ELSE ts' = ts /\ poll' = AfterBatch(chunks - n)
    /\ UNCHANGED <<vars, screen, st, ended, height, doc, due>>

\* vtscreen-feed! of the batch, while libvterm calls back and when it returns.
Scroll ==
    /\ poll = "writing"
    /\ ScrollOff
    /\ UNCHANGED <<screen, st, channel, height, doc, ts, due, poll>>

Written ==
    /\ poll = "writing"
    /\ JvtWrite
    /\ poll' = "events"
    /\ UNCHANGED <<vars, channel, height, doc, ts, due>>

NoFlush ==
    /\ Draining /\ chunks = 0
    /\ ended /\ poll' = "done"
    /\ UNCHANGED <<vars, screen, st, channel, height, doc, ts, due>>

\* No data: the done message, or a draw that was put off.
Flush ==
    /\ Draining /\ chunks = 0
    /\ \/ ended /\ poll' = "done"
       \/ ~ended /\ ts.initialized /\ due /\ shown /\ poll' = "events"
    /\ UNCHANGED <<vars, screen, st, channel, height, doc, ts, due>>

\* After the events: the draw, if the window still shows the buffer and a
\* draw is due.
Draw ==
    /\ poll = "events"
    /\ poll' = AfterBatch(chunks)
    /\ IF shown /\ due
         THEN /\ IF ~ts.initialized THEN DrawAll
                 ELSE IF st.any_damage THEN Diff
                 ELSE UNCHANGED <<doc, ts, st>>
              /\ due' = FALSE
         ELSE UNCHANGED <<doc, ts, st, due>>
    /\ UNCHANGED <<vars, screen, channel, height>>

\* qt-poll-terminal-pty-msg! with 'done: the tables of the terminal are
\* cleaned, its screen is freed, and the text before a full-screen program
\* comes back.
Done ==
    /\ poll = "done"
    /\ poll' = "idle"
    /\ doc' = IF shown /\ Alt /\ ts.pre # NULL THEN ts.pre ELSE doc
    /\ ts' = FreshTs
    /\ Freed
    /\ due' = TRUE
    /\ UNCHANGED height

ScreenInit ==
    /\ Init
    /\ screen = <<>> /\ st = NoState
    /\ chunks = 0 /\ ended = FALSE
    /\ height \in Heights
    /\ doc = <<Before, Blank>>
    /\ ts = FreshTs /\ due = TRUE /\ poll = "idle"

Poll == FollowSize \/ MoveLine \/ Resized \/ Batch \/ Written \/ Flush \/ Draw \/ Done

ScreenNext ==
    \/ Start \/ Post \/ ResizeWindow \/ UseWindow \/ Kill \/ UseRing \/ Clock
    \/ Poll \/ Scroll

\* The master timer ticks, a write returns, and time passes; nothing else is
\* promised.
ScreenSpec == ScreenInit /\ [][ScreenNext]_screenVars
              /\ WF_screenVars(Poll) /\ WF_screenVars(Clock)

------------------------------------------------------------------------------
(* Properties.                                                             *)

\* Every variable has its type, those of the ring too; the flags are those of
\* the rows, and none was written outside their array, by whatever number of
\* rows the window grows or shrinks (vterm_shim.c cb_damage, jvt_resize).
ScreenTypeOK ==
    /\ TypeOK
    /\ screen \in Seq(Lines)
    /\ poll # "resizing" => Len(screen) = st.rows
    /\ DOMAIN st.dirty = Rows /\ ~st.overrun
    /\ chunks \in 0 .. MaxChunks /\ ended \in BOOLEAN
    /\ height \in Heights \cup {0} /\ due \in BOOLEAN
    /\ poll \in {"idle", "resizing", "writing", "events", "done"}

\* What a row-diff does not look at is what it drew: a row whose flag is clear
\* has the text in the cache, whatever resizes, draws and kills came between
\* and except while a resize moves the rows (app.ss vterm-row-diff-render!).
CacheFresh ==
    Live /\ ts.initialized /\ poll # "resizing" =>
        /\ DOMAIN ts.cache = Rows
        /\ \A r \in Rows : ~RowDirty(r) => ts.cache[r] = RowText(r)

\* With nothing left to draw, a full-screen program is shown exactly: nothing
\* of the text before it or of an earlier draw is left.
AltExact ==
    Live /\ Alt /\ ts.initialized /\ ~st.any_damage /\ poll # "resizing" => doc = GetText

\* Throttling never swallows a change: damage on a screen that has been drawn
\* does not stay undrawn for ever while a window shows it (app.ss, "flush any
\* throttled render").
DamageShown == []<>(Live /\ shown /\ ts.initialized => ~st.any_damage)

==============================================================================
