------------------------------- MODULE LineEditor -------------------------------
(***************************************************************************)
(* The interactive line: shell/core/cli_edit.c (keys, escape sequences,    *)
(* redraw), cli_history.c (the packed ring), cli_complete.c (Tab), and the *)
(* line that cli_out_begin() breaks when a background job prints. A byte   *)
(* of input is one step: jobs run below the shell's thread.                *)
(* Abstracted: command names to a few, output to whole lines that scroll   *)
(* what is above the prompt away. External: an xterm of known width (the   *)
(* probe of it is left out), which wraps when the next byte comes.         *)
(***************************************************************************)
EXTENDS Integers, SequencesExt

CONSTANTS Cols,       \* the terminal's width
          MaxLen,     \* CLI_CMD_BUFFER_SIZE - 1
          HistSize,   \* CLI_HISTORY_BUFFER_SIZE
          PromptText, Printable,
          Roots, Subs \* command names, and of each the names of its subcommands
Gap == " "
ASSUME EditorAssumption ==
    /\ Cols \in Nat \ {0} /\ MaxLen \in Nat /\ HistSize \in Nat
    /\ PromptText \in Seq(Range(PromptText)) /\ Len(PromptText) \in 1 .. Cols - 1
    /\ Gap \in Printable /\ "0" \notin Printable   \* "0": the terminator of a line in the ring
    /\ Roots \subseteq Seq(Printable) /\ DOMAIN Subs = Roots /\ \A n \in Roots : Subs[n] \subseteq Seq(Printable)

VARIABLES
    line, cur, overwrite,      \* sh->line, cur, overwrite
    screen,                    \* the cells below the last output, the cursor; old_rows, draw_row
    renderDirty, tabArmed,     \* render_dirty, tab_list_armed
    rx, escParam, prevCr,      \* the state of the input: CLI_RX_*, the parameter, prev_cr
    hist, navOn, nav,          \* the packed ring; hist_nav_on, hist_nav
    entries, navAt,            \* ghost: the lines a history of this size holds; the one recalled
    smeared                    \* ghost: output began above rows of a wrapped line

lineVars == <<line, cur>>
inputVars == <<rx, escParam, prevCr>>
navVars == <<navOn, nav, navAt>>
histVars == <<hist, entries>>
edVars == <<line, cur, overwrite, screen, renderDirty, tabArmed, rx, escParam, prevCr, hist, navOn, nav,
            entries, navAt, smeared>>

------------------------------------------------------------------------------
(* The terminal. Row 0 is output, above which nothing is looked at. *)

Cells == 0 .. Cols * (4 + (Len(PromptText) + MaxLen) \div Cols) - 1
Above == [i \in Cells |-> IF i < Cols THEN "#" ELSE Gap]
Term(cells, at, wrap, old, draw) == [cells |-> cells, at |-> at, wrap |-> wrap, old |-> old, draw |-> draw]
Cleared == Term(Above, Cols, FALSE, 0, 0)
RowOf(s) == (IF s.wrap THEN s.at - 1 ELSE s.at) \div Cols
Put(s, text) ==
    Term([i \in Cells |-> IF i - s.at \in 0 .. Len(text) - 1 THEN text[i - s.at + 1] ELSE s.cells[i]],
         s.at + Len(text), (s.at + Len(text)) % Cols = 0, s.old, s.draw)
CursorTo(s, row, col) == Term(s.cells, row * Cols + col, FALSE, s.old, s.draw)
Back(s) == Term(s.cells, s.at - 1, FALSE, s.old, s.draw)
NewLine(s) == CursorTo(s, RowOf(s) + 1, 0)
\* What is above the cursor's row scrolls away.
Scrolled(s) ==
    Term([i \in Cells |->
              LET j == i + (RowOf(s) - 1) * Cols IN
              IF i < Cols THEN "#" ELSE IF j \in Cells THEN s.cells[j] ELSE Gap],
         Cols, FALSE, s.old, s.draw)
BelowCursor(s) == \E i \in Cells : i \div Cols > RowOf(s) /\ s.cells[i] # Gap

------------------------------------------------------------------------------
(* Redraw. *)

\* old_rows, draw_row: what the editor keeps of the render it left.
Rendered(s, old, draw) == Term(s.cells, s.at, s.wrap, old, draw)
\* cli_edit_refresh(): erase the last render, paint, and put the cursor back.
\* Mutant: a line that ends at the edge leaves the cursor to the terminal.
EdgeLeft(s, pend) == s
Edge(s, pend) == IF pend % Cols = 0 THEN NewLine(s) ELSE s
Erased(s) ==
    LET bottom == RowOf(s) + s.old - 1 - s.draw
        top == bottom - s.old + 1
    IN  IF s.old = 0 THEN CursorTo(s, RowOf(s), 0)
        ELSE Term([i \in Cells |-> IF i \div Cols \in top .. bottom THEN Gap ELSE s.cells[i]],
                  top * Cols, FALSE, s.old, s.draw)
Refresh(s, text, k) ==
    LET pend == Len(PromptText) + Len(text)
        pcur == Len(PromptText) + k
        painted == Edge(Put(Erased(s), PromptText \o text), pend)
        up == pend \div Cols - pcur \div Cols
    IN  Rendered(CursorTo(painted, RowOf(painted) - up, pcur % Cols), pend \div Cols + 1, pcur \div Cols)
Reposition(s, k) ==
    LET pcur == Len(PromptText) + k IN
    Rendered(CursorTo(s, RowOf(s) - s.draw + pcur \div Cols, pcur % Cols), s.old, pcur \div Cols)

\* cli_input_byte() first repaints below what a job printed.
Settled == IF renderDirty THEN Refresh(screen, line, cur) ELSE screen
Edits(text, k) == line' = text /\ cur' = k /\ screen' = Refresh(Settled, text, k)
Bel == UNCHANGED lineVars /\ screen' = Settled

PromptDrawn(s) == Rendered(Put(Scrolled(s), PromptText), Len(PromptText) \div Cols + 1, 0)

EdInit ==
    /\ line = <<>> /\ cur = 0 /\ overwrite = FALSE
    /\ screen = Refresh(Cleared, <<>>, 0)
    /\ renderDirty = FALSE /\ tabArmed = FALSE
    /\ rx = "normal" /\ escParam = 0 /\ prevCr = FALSE
    /\ hist = <<>> /\ navOn = FALSE /\ nav = 0 /\ entries = <<>> /\ navAt = 0 /\ smeared = FALSE

------------------------------------------------------------------------------
(* Edit operations. *)

Before(k) == SubSeq(line, 1, k)
From(k) == SubSeq(line, k + 1, Len(line))
AtEnd == cur = Len(line)
Pend == Len(PromptText) + Len(line)

\* fast_append(), fast_backspace(): a byte is echoed, the bookkeeping stays.
CanEcho == AtEnd /\ (Pend + 1) % Cols # 0
CanRubOut == AtEnd /\ Pend % Cols # 0
OpInsert(c) ==
    \/ /\ overwrite /\ ~ AtEnd /\ Edits(Before(cur) \o <<c>> \o From(cur + 1), cur + 1)
    \/ /\ ~ (overwrite /\ ~ AtEnd) /\ Len(line) = MaxLen /\ Bel
    \/ /\ ~ (overwrite /\ ~ AtEnd) /\ Len(line) < MaxLen /\ ~ CanEcho
       /\ Edits(Before(cur) \o <<c>> \o From(cur), cur + 1)
    \/ /\ Len(line) < MaxLen /\ CanEcho
       /\ line' = Append(line, c) /\ cur' = cur + 1 /\ screen' = Put(Settled, <<c>>)
OpBackspace ==
    \/ cur = 0 /\ Bel
    \/ cur > 0 /\ ~ CanRubOut /\ Edits(Before(cur - 1) \o From(cur), cur - 1)
    \/ /\ cur > 0 /\ CanRubOut /\ line' = Before(cur - 1) /\ cur' = cur - 1
       /\ screen' = Back(Put(Back(Settled), <<Gap>>))
OpDeleteFwd == IF AtEnd THEN Bel ELSE Edits(Before(cur) \o From(cur + 1), cur)
OpKillEol == IF AtEnd THEN Bel ELSE Edits(Before(cur), cur)
OpKillBol == IF cur = 0 THEN Bel ELSE Edits(From(cur), 0)

Space(i) == line[i] = Gap
\* word_start(), word_end(): over spaces, then over the word.
WordStart == LET edges == {i \in 1 .. cur - 1 : Space(i) /\ ~ Space(i + 1)} IN Max(edges \cup {0})
WordEnd == LET edges == {i \in cur + 1 .. Len(line) - 1 : ~ Space(i) /\ Space(i + 1)} IN Min(edges \cup {Len(line)})
OpDelWord == IF cur = 0 THEN Bel ELSE Edits(Before(WordStart) \o From(cur), WordStart)

MoveTo(k) ==
    /\ cur' = k /\ UNCHANGED line
    /\ screen' = IF k = cur THEN Settled ELSE Reposition(Settled, k)
OpLeft == MoveTo(IF cur > 0 THEN cur - 1 ELSE 0)
OpRight == MoveTo(IF AtEnd THEN cur ELSE cur + 1)
OpClearScreen ==
    /\ UNCHANGED lineVars
    /\ screen' = Refresh(Cleared, line, cur)

------------------------------------------------------------------------------
(* History: entries with a terminator each, oldest first. *)

NextOff(h, off) == Min({i \in off + 1 .. Len(h) : h[i] = "0"})
Offsets(h) == {i \in 0 .. Len(h) - 1 : i = 0 \/ h[i] = "0"}
EntryAt(h, off) == SubSeq(h, off + 1, NextOff(h, off) - 1)
EntryFits(used, n) == used + n <= HistSize
Evicted(h, n) == LET s == Min({i \in Offsets(h) \cup {Len(h)} : EntryFits(Len(h) - i, n)}) IN SubSeq(h, s + 1, Len(h))
Kept(text) == text # <<>> /\ Len(text) + 1 <= HistSize
HistoryAdd(text) ==
    hist' = IF ~ Kept(text) \/ (hist # <<>> /\ EntryAt(hist, Max(Offsets(hist))) = text) THEN hist
            ELSE Evicted(hist, Len(text) + 1) \o text \o <<"0">>

Packed(e) == FlattenSeq([i \in DOMAIN e |-> e[i] \o <<"0">>])
Remembered(text) ==
    LET e == Append(entries, text)
        s == Min({i \in 1 .. Len(e) : Len(Packed(SubSeq(e, i, Len(e)))) <= HistSize})
    IN  IF ~ Kept(text) \/ (entries # <<>> /\ Last(entries) = text) THEN entries ELSE SubSeq(e, s, Len(e))

Recall(off) == nav' = off /\ navOn' = TRUE /\ LET e == EntryAt(hist, off) IN Edits(e, Len(e))
HistoryPrev ==
    IF hist = <<>> \/ (navOn /\ nav = 0) THEN Bel /\ UNCHANGED navVars
    ELSE /\ Recall(Max({o \in Offsets(hist) : navOn => o < nav}))
         /\ navAt' = IF navOn THEN navAt - 1 ELSE Len(entries)
HistoryNext ==
    IF ~ navOn THEN Bel /\ UNCHANGED navVars
    ELSE IF NextOff(hist, nav) < Len(hist) THEN Recall(NextOff(hist, nav)) /\ navAt' = navAt + 1
    ELSE navOn' = FALSE /\ navAt' = 0 /\ UNCHANGED nav /\ Edits(<<>>, 0)

------------------------------------------------------------------------------
(* cli_tab_complete(). *)

CompleteFrom == Max({i \in 1 .. cur : Space(i)} \cup {0})
WordsBefore(ws) == {i \in 1 .. ws : ~ Space(i) /\ (i = 1 \/ Space(i - 1))}
WordAt(i) == SubSeq(line, i, Min({j \in i .. Len(line) : j = Len(line) \/ Space(j + 1)}))
\* resolve_set(): the names that may stand here.
NameSet(ws) ==
    LET first == WordAt(Min(WordsBefore(ws))) IN
    IF WordsBefore(ws) = {} THEN Roots
    ELSE IF Cardinality(WordsBefore(ws)) = 1 /\ first \in Roots THEN Subs[first] ELSE {}
Inserted(text, k, tail) == SubSeq(text, 1, k) \o tail \o SubSeq(text, k + 1, Len(text))
OpTab ==
    LET prefix == SubSeq(line, CompleteFrom + 1, cur)
        found == {n \in NameSet(CompleteFrom) : IsPrefix(prefix, n)}
        common == LongestCommonPrefix(found)
        tail == SubSeq(common, Len(prefix) + 1, Len(common))
        room == Len(line) + Len(tail) <= MaxLen
        spaced == AtEnd /\ room /\ Len(line) + Len(tail) < MaxLen
        full == IF room THEN IF spaced THEN Append(tail, Gap) ELSE tail ELSE <<>>
    IN  \/ found = {} /\ Bel /\ tabArmed' = FALSE
        \/ /\ Cardinality(found) = 1 /\ tabArmed' = FALSE
           /\ Edits(Inserted(line, cur, full), cur + Len(full))
        \/ /\ Cardinality(found) > 1 /\ tabArmed' = TRUE
           /\ IF tail # <<>> /\ room THEN Edits(Inserted(line, cur, tail), cur + Len(tail))
              ELSE IF ~ tabArmed THEN Bel
              ELSE \* show_list(): below the render, which then starts anew
                   /\ UNCHANGED lineVars
                   /\ LET s == Settled
                          below == NewLine(CursorTo(s, RowOf(s) + s.old - 1 - s.draw, 0))
                      IN screen' = Refresh(Rendered(Scrolled(below), 0, 0), line, cur)

------------------------------------------------------------------------------
(* cli_input_byte(). *)

Handled == renderDirty' = FALSE
NotTab == tabArmed' = FALSE
NoNav == UNCHANGED navVars
Same == UNCHANGED <<overwrite, hist, entries, smeared>>

\* Ctrl+C, in any state of the input.
CtrlC ==
    /\ Handled /\ NotTab /\ rx' = "normal" /\ escParam' = 0 /\ prevCr' = FALSE
    /\ line' = <<>> /\ cur' = 0 /\ navOn' = FALSE /\ navAt' = 0 /\ UNCHANGED nav
    /\ smeared' = (smeared \/ BelowCursor(Settled))
    /\ screen' = PromptDrawn(NewLine(Settled))
    /\ UNCHANGED <<overwrite, hist, entries>>

\* edit_submit(), cli_dispatch_line(): the line is recorded and run, and the
\* prompt comes below what it printed.
Submit(cr) ==
    /\ Handled /\ NotTab /\ rx = "normal"
    /\ IF ~ cr /\ prevCr
       THEN Bel /\ NoNav /\ Same /\ prevCr' = FALSE /\ UNCHANGED <<rx, escParam>>
       ELSE /\ LET s == IF AtEnd THEN Settled ELSE Reposition(Settled, Len(line)) IN
               screen' = PromptDrawn(NewLine(s)) /\ smeared' = (smeared \/ BelowCursor(s))
            /\ HistoryAdd(line) /\ entries' = Remembered(line)
            /\ line' = <<>> /\ cur' = 0 /\ navOn' = FALSE /\ nav' = 0 /\ navAt' = 0
            /\ prevCr' = (IF cr THEN TRUE ELSE prevCr) /\ UNCHANGED <<overwrite, rx, escParam>>

Control ==
    /\ Handled /\ NotTab /\ rx = "normal" /\ prevCr' = FALSE /\ UNCHANGED <<rx, escParam>>
    /\ \/ (\E c \in Printable : OpInsert(c)) /\ NoNav /\ Same
       \/ (OpBackspace \/ OpDeleteFwd \/ OpKillEol \/ OpKillBol \/ OpDelWord) /\ NoNav /\ Same
       \/ (OpLeft \/ OpRight \/ MoveTo(0) \/ MoveTo(Len(line))) /\ NoNav /\ Same
       \/ OpClearScreen /\ NoNav /\ smeared' = FALSE /\ UNCHANGED <<overwrite, hist, entries>>
       \/ (HistoryPrev \/ HistoryNext) /\ Same
Tab ==
    /\ Handled /\ rx = "normal" /\ prevCr' = FALSE /\ UNCHANGED <<rx, escParam>>
    /\ OpTab /\ NoNav /\ Same

Escape ==
    /\ Handled /\ NotTab /\ NoNav /\ Same /\ Bel /\ escParam' = 0
    /\ \/ rx = "normal" /\ rx' = "esc" /\ prevCr' = FALSE
       \/ rx = "esc" /\ rx' \in {"csi", "ss3"} /\ UNCHANGED prevCr
AltKey ==
    /\ Handled /\ NotTab /\ NoNav /\ Same /\ rx = "esc" /\ rx' = "normal" /\ UNCHANGED <<escParam, prevCr>>
    /\ MoveTo(WordStart) \/ MoveTo(WordEnd) \/ Bel
Parameter ==
    /\ Handled /\ NotTab /\ NoNav /\ Same /\ Bel /\ rx = "csi" /\ escParam = 0
    /\ escParam' \in {2, 3} /\ UNCHANGED <<rx, prevCr>>
\* csi_final(), ss3_final(): arrows, Home, End; Insert and Delete have a parameter.
Final ==
    /\ Handled /\ NotTab /\ rx \in {"csi", "ss3"} /\ rx' = "normal" /\ escParam' = 0 /\ UNCHANGED prevCr
    /\ \/ (HistoryPrev \/ HistoryNext) /\ Same
       \/ (OpLeft \/ OpRight \/ MoveTo(0) \/ MoveTo(Len(line)) \/ Bel) /\ NoNav /\ Same
       \/ escParam = 3 /\ OpDeleteFwd /\ NoNav /\ Same
       \/ escParam = 2 /\ overwrite' = ~ overwrite /\ Bel /\ NoNav /\ UNCHANGED <<hist, entries, smeared>>

\* cli_out_begin() for a job of this shell: the first output since the last
\* key breaks the line.
JobPrints ==
    /\ smeared' = (smeared \/ (~ renderDirty /\ BelowCursor(screen)))
    /\ screen' = Rendered(Scrolled(NewLine(screen)), 0, 0)
    /\ renderDirty' = TRUE
    /\ UNCHANGED <<lineVars, overwrite, tabArmed, inputVars, navVars, histVars>>

EdNext ==
    \/ CtrlC \/ Submit(TRUE) \/ Submit(FALSE) \/ Control \/ Tab
    \/ Escape \/ AltKey \/ Parameter \/ Final \/ JobPrints
EdSpec == EdInit /\ [][EdNext]_edVars

------------------------------------------------------------------------------
EdTypeOK ==
    /\ Len(line) \in 0 .. MaxLen /\ cur \in 0 .. Len(line) /\ Len(hist) \in 0 .. HistSize
    /\ screen.at \in Cells /\ rx \in {"normal", "esc", "csi", "ss3"}

\* The terminal shows the prompt and the line, over as many rows as they
\* take, with the cursor where the next key edits.
ScreenShowsLine ==
    ~ renderDirty /\ ~ smeared =>
        LET text == PromptText \o line
            pcur == Len(PromptText) + cur
        IN  /\ screen.at = Cols + pcur /\ ~ screen.wrap
            /\ \A i \in Cells : screen.cells[i] =
                  IF i < Cols THEN "#" ELSE IF i - Cols \in 0 .. Len(text) - 1 THEN text[i - Cols + 1] ELSE Gap

\* The ring holds the newest submitted lines that fit, and the arrow keys
\* walk them one by one.
HistoryFaithful ==
    /\ hist = Packed(entries)
    /\ navOn <=> navAt > 0
    /\ navOn => EntryAt(hist, nav) = entries[navAt]

EditorSound == EdTypeOK /\ ScreenShowsLine /\ HistoryFaithful

==============================================================================
