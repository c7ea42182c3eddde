------------------------------- MODULE Dialog -------------------------------
(***************************************************************************)
(* The dialog boxes of the menu program (kconfig/lxdialog), one at a time: *)
(* a menu, a list of which one is chosen, an input line, a text with       *)
(* pages, a question.  A key is an action, and the user may press any key  *)
(* at any time, or change the size of the terminal.  What is drawn is      *)
(* part of the state as far as it tells the user what a key will act on:   *)
(* the item in each row, the rows that are highlighted, the button.        *)
(***************************************************************************)
EXTENDS Integers, Sequences, FiniteSetsExt, SequencesExt

CONSTANTS Heights,      \* how many rows a menu or a text may have
          MaxItems,     \* bound on the items
          ListHeight,   \* CHECKLIST_HEIGTH_MIN
          BoxWidth,     \* how many characters of the input line are seen
          MaxLen,       \* MAX_LEN
          MaxText       \* bound on the length of a text

VARIABLE dlg

Blank == -1

\* A menu or a list.  saved is *s_scroll, selected the index of the item with
\* the data that the caller names; drawn is the button that is highlighted.
Items(kind, count) ==
    [kind |-> kind, open |-> TRUE, count |-> count, rows |-> 0, scroll |-> 0, choice |-> 0, first |-> 0,
     saved |-> 0, selected |-> Blank, button |-> 0, drawn |-> 0, screen |-> << >>, lit |-> {},
     past |-> FALSE, resized |-> FALSE]

MaxChoice(d) == Min({d.rows, d.count})

\* item_set and print_item: to go past the end of the list is to read through NULL.
print_item(d, item, row, lit) ==
    [d EXCEPT !.screen = [@ EXCEPT ![row] = item], !.lit = IF lit THEN @ \cup {row} ELSE @ \ {row},
              !.past = @ \/ item \notin 0 .. d.count - 1]

wscrl(d, n) ==
    [d EXCEPT !.screen = [r \in DOMAIN @ |-> IF r + n \in DOMAIN @ THEN @[r + n] ELSE Blank],
              !.lit = {r - n : r \in @} \cap DOMAIN d.screen]

\* The rows are printed, from item first on.
Printed(d) ==
    [d EXCEPT !.screen = [r \in 0 .. d.rows - 1 |-> IF r < MaxChoice(d) THEN d.first + r ELSE Blank],
              !.lit = {d.choice} \cap 0 .. MaxChoice(d) - 1, !.drawn = 0,
              !.past = @ \/ \E r \in 0 .. MaxChoice(d) - 1 : d.first + r \notin 0 .. d.count - 1]

Opened(kind) == dlg.kind = kind /\ dlg.open /\ (kind \in {"menu", "list"} => ~dlg.past)

Closed(d) == [d EXCEPT !.open = FALSE]

\* The button to the left or to the right; there are n.
Pressed(d, n) == \E step \in {-1, 1} : dlg' = [d EXCEPT !.button = (@ + step) % n, !.drawn = (d.button + step) % n]

-----------------------------------------------------------------------------
(***************************************************************************)
(* dialog_menu                                                             *)
(***************************************************************************)

\* The saved scroll is used if the chosen item would show.
SavedScroll(d, at) ==
    IF d.saved <= at /\ at < d.saved + MaxChoice(d) /\ d.saved + MaxChoice(d) <= d.count
    THEN [d EXCEPT !.scroll = d.saved, !.first = d.saved, !.choice = at - d.saved]
    ELSE [d EXCEPT !.scroll = 0, !.choice = at]

ScrollTo(d, at) == [d EXCEPT !.scroll = at, !.first = at, !.choice = @ - at]

Placed(d) ==
    IF d.choice < MaxChoice(d) THEN d
    ELSE IF d.choice >= d.count - MaxChoice(d) \div 2 THEN ScrollTo(d, d.count - MaxChoice(d))
    ELSE ScrollTo(d, d.choice - MaxChoice(d) \div 2)

\* From do_resize on
MenuDrawn(d) == Printed(Placed(SavedScroll(d, IF d.selected # Blank THEN d.selected ELSE d.choice)))

\* conf calls it, with another number of items each time, until it is left.
dialog_menu(saved) == \E rows \in Heights, count \in 0 .. MaxItems : \E selected \in {Blank} \cup 0 .. count - 1 :
    dlg' = MenuDrawn([Items("menu", count) EXCEPT !.rows = rows, !.selected = selected, !.saved = saved])

menu_again == dlg.kind = "menu" /\ ~dlg.open /\ dialog_menu(dlg.saved)

do_scroll(d, n) == [wscrl(d, n) EXCEPT !.scroll = @ + n]

Unlit(d) == print_item(d, d.scroll + d.choice, d.choice, FALSE)

Lit(d) == print_item(d, d.scroll + d.choice, d.choice, TRUE)

TopShown(d) == print_item(d, d.scroll, 0, FALSE)

BottomShown(d) == print_item(d, d.scroll + MaxChoice(d) - 1, MaxChoice(d) - 1, FALSE)

menu_up(d) ==
    IF d.choice < 2 /\ d.scroll # 0 THEN TopShown(do_scroll(d, -1)) ELSE [d EXCEPT !.choice = Max({@ - 1, 0})]

menu_down(d) ==
    IF d.choice > MaxChoice(d) - 3 /\ d.scroll + MaxChoice(d) < d.count THEN BottomShown(do_scroll(d, 1))
    ELSE [d EXCEPT !.choice = Min({@ + 1, MaxChoice(d) - 1})]

PageUp(d, i) ==
    IF d.scroll > 0 THEN TopShown(do_scroll(d, -1)) ELSE [d EXCEPT !.choice = Max({@ - 1, 0})]

PageDown(d, i) ==
    IF d.scroll + MaxChoice(d) < d.count THEN BottomShown(do_scroll(d, 1))
    ELSE IF d.choice + 1 < MaxChoice(d) THEN [d EXCEPT !.choice = @ + 1] ELSE d

\* An arrow, a page, or the letter of the item in row i
menu_move ==
    /\ Opened("menu") /\ dlg.count # 0
    /\ LET d == Unlit(dlg)
           times == [i \in 1 .. MaxChoice(d) |-> i]
       IN  \/ dlg' = Lit(menu_up(d))
           \/ dlg' = Lit(menu_down(d))
           \/ dlg' = Lit(FoldLeft(PageUp, d, times))
           \/ dlg' = Lit(FoldLeft(PageDown, d, times))
           \/ \E i \in 0 .. MaxChoice(d) - 1 : dlg' = Lit([d EXCEPT !.choice = i])

menu_button == Opened("menu") /\ Pressed(dlg, 5)

\* A key that acts on the item
menu_return == Opened("menu") /\ dlg' = Closed([dlg EXCEPT !.saved = dlg.scroll])

\* Escape: conf returns, and the next menu is not scrolled.
menu_leave == Opened("menu") /\ dlg' = Closed([dlg EXCEPT !.saved = 0])

menu_resize == \E rows \in Heights :
    /\ Opened("menu")
    /\ dlg' = MenuDrawn([dlg EXCEPT !.rows = rows, !.resized = TRUE])

-----------------------------------------------------------------------------
(***************************************************************************)
(* dialog_checklist                                                        *)
(***************************************************************************)
ListDrawn(d) ==
    Printed(IF d.choice < ListHeight THEN [d EXCEPT !.first = d.scroll]
            ELSE [d EXCEPT !.scroll = d.choice - ListHeight + 1, !.first = d.choice - ListHeight + 1,
                           !.choice = ListHeight - 1])

dialog_checklist == \E count \in 1 .. MaxItems : \E choice \in 0 .. count - 1 :
    dlg' = ListDrawn([Items("list", count) EXCEPT !.rows = ListHeight, !.choice = choice])

list_down(d) ==
    IF d.choice = MaxChoice(d) - 1
    THEN IF d.scroll + d.choice >= d.count - 1 THEN d ELSE Lit([wscrl(Unlit(d), 1) EXCEPT !.scroll = @ + 1])
    ELSE Lit([Unlit(d) EXCEPT !.choice = @ + 1])

list_up(d) ==
    IF d.choice = 0 THEN IF d.scroll = 0 THEN d ELSE Lit([wscrl(Unlit(d), -1) EXCEPT !.scroll = @ - 1])
    ELSE Lit([Unlit(d) EXCEPT !.choice = @ - 1])

list_move ==
    /\ Opened("list")
    /\ \/ dlg' = list_up(dlg)
       \/ dlg' = list_down(dlg)
       \/ \E i \in 0 .. MaxChoice(dlg) - 1 : dlg' = Lit([Unlit(dlg) EXCEPT !.choice = i])

list_button == Opened("list") /\ Pressed(dlg, 2)

list_return == Opened("list") /\ dlg' = Closed(dlg)

list_resize == Opened("list") /\ dlg' = ListDrawn([dlg EXCEPT !.resized = TRUE])

-----------------------------------------------------------------------------
(***************************************************************************)
(* dialog_inputbox.  instr is an array, and NUL ends the string; before    *)
(* and after are what a user means who types at the cursor.                *)
(***************************************************************************)
Chars == {"a", "b"}
NUL == "0"

CursorAtEnd(d) ==
    LET len == Min({i \in DOMAIN d.instr : d.instr[i] = NUL})
    IN  [d EXCEPT !.len = len, !.pos = len, !.before = @ \o d.after, !.after = << >>, !.drawn = 0,
                  !.show_x = Max({0, len - BoxWidth + 1}), !.input_x = Min({len, BoxWidth - 1})]

dialog_inputbox == \E n \in 0 .. MaxLen : \E init \in [1 .. n -> Chars] :
    dlg' = CursorAtEnd([kind |-> "input", open |-> TRUE, len |-> 0, pos |-> 0, show_x |-> 0, input_x |-> 0, button |-> -1,
                        instr |-> [i \in 0 .. MaxLen |-> IF i < n THEN init[i + 1] ELSE NUL], drawn |-> 0,
                        before |-> init, after |-> << >>, resized |-> FALSE])

Typing == Opened("input") /\ dlg.button = -1

\* Mutant: the cursor stays in its column.
input_backspace_Column(d) ==
    [d EXCEPT !.instr = [i \in 0 .. MaxLen |-> IF i = d.len - 1 THEN NUL ELSE IF i >= d.pos - 1 /\ i < d.len THEN @[i + 1] ELSE @[i]],
              !.pos = @ - 1, !.len = @ - 1, !.before = Front(@), !.show_x = Max({0, @ - 1})]

input_backspace(d) ==
    [d EXCEPT !.instr = [i \in 0 .. MaxLen |-> IF i = d.len - 1 THEN NUL ELSE IF i >= d.pos - 1 /\ i < d.len THEN @[i + 1] ELSE @[i]],
              !.pos = @ - 1, !.len = @ - 1, !.before = Front(@),
              !.show_x = IF d.input_x = 0 THEN @ - 1 ELSE @, !.input_x = IF @ = 0 THEN 0 ELSE @ - 1]

input_left(d) ==
    [d EXCEPT !.pos = @ - 1, !.before = Front(@), !.after = <<Last(d.before)>> \o @,
              !.show_x = IF d.input_x = 0 THEN @ - 1 ELSE @, !.input_x = IF @ = 0 THEN 0 ELSE @ - 1]

ColumnRight(d) ==
    [d EXCEPT !.show_x = IF d.input_x = BoxWidth - 1 THEN @ + 1 ELSE @,
              !.input_x = IF @ = BoxWidth - 1 THEN @ ELSE @ + 1]

input_right(d) ==
    [ColumnRight(d) EXCEPT !.pos = @ + 1, !.before = Append(@, Head(d.after)), !.after = Tail(@)]

input_char(d, key) ==
    [ColumnRight(d) EXCEPT
        !.instr = [i \in 0 .. MaxLen |-> IF i = d.pos THEN key ELSE IF i > d.pos /\ i <= d.len THEN @[i - 1] ELSE @[i]],
        !.pos = @ + 1, !.len = @ + 1, !.before = Append(@, key)]

\* A key while the line is edited.  Beyond MAX_LEN the terminal flashes.
input_edit ==
    /\ Typing
    /\ \/ dlg.pos > 0 /\ dlg' = input_backspace(dlg)
       \/ dlg.pos > 0 /\ dlg' = input_left(dlg)
       \/ dlg.pos < dlg.len /\ dlg' = input_right(dlg)
       \/ dlg.len < MaxLen /\ \E key \in Chars : dlg' = input_char(dlg, key)

\* From the line, -1, to the buttons and back
input_button == \E step \in {-1, 1} :
    /\ Opened("input")
    /\ LET button == ((dlg.button + 1 + step) % 3) - 1
       IN  dlg' = [dlg EXCEPT !.button = button, !.drawn = Max({0, button})]

input_return == Opened("input") /\ dlg' = Closed(dlg)

input_resize == Opened("input") /\ dlg' = CursorAtEnd([dlg EXCEPT !.resized = TRUE])

-----------------------------------------------------------------------------
(***************************************************************************)
(* dialog_textbox.  page is a position in buf; between two keys it is      *)
(* behind the page that is seen, whose first line is at top.               *)
(***************************************************************************)
Newline == "n"

\* The position behind each newline from lo to hi
Behind(t, lo, hi) == {p + 1 : p \in {q \in lo .. hi : t.buf[q + 1] = Newline}}

get_line(t) ==
    LET next == Behind(t, t.page, Len(t.buf) - 1)
    IN  [t EXCEPT !.page = IF next = {} THEN Len(t.buf) ELSE Min(next), !.end_reached = next = {}]

RECURSIVE GetLines(_, _)
GetLines(t, n) == IF n = 0 THEN t ELSE GetLines(get_line(t), n - 1)

\* Mutant: the line behind the last newline is not counted.
AtEnd_Never(t) == FALSE

AtEnd(t) == t.page = Len(t.buf) /\ t.end_reached

RECURSIVE Back(_, _)
Back(t, n) ==
    LET prev == Behind(t, 0, t.page - 2)
    IN  IF n <= 0 THEN t
        ELSE IF AtEnd(t) THEN Back([t EXCEPT !.end_reached = FALSE], n - 1)
        ELSE IF prev = {} THEN [t EXCEPT !.page = 0, !.begin_reached = TRUE]
        ELSE Back([t EXCEPT !.page = Max(prev)], n - 1)

back_lines(t, n) == Back([t EXCEPT !.begin_reached = FALSE], n)

\* Lines are counted up to the one that ends the text.
print_line(t, i) ==
    [get_line(t) EXCEPT !.page_length = IF t.passed THEN @ ELSE @ + 1, !.passed = @ \/ get_line(t).end_reached]

PrintFrom(t) ==
    FoldLeft(print_line, [t EXCEPT !.top = t.page, !.page_length = 0, !.passed = FALSE], [i \in 1 .. t.height |-> i])

\* A search marks the lines of the page first, which goes forth and back.
print_page(t) == PrintFrom(IF t.marks THEN back_lines(GetLines(t, t.height), t.height) ELSE t)

dialog_textbox(buf, marks, vscroll, hscroll) == \E height \in Heights :
    dlg' = print_page(GetLines([kind |-> "text", open |-> TRUE, buf |-> buf, marks |-> marks, height |-> height, page |-> 0,
                                begin_reached |-> vscroll = 0, end_reached |-> FALSE, page_length |-> 0, passed |-> FALSE,
                                hscroll |-> hscroll, top |-> 0, vscroll |-> 0], vscroll))

text_home ==
    /\ Opened("text") /\ ~dlg.begin_reached
    /\ dlg' = print_page([dlg EXCEPT !.begin_reached = TRUE, !.page = 0])

text_end ==
    /\ Opened("text")
    /\ dlg' = print_page(back_lines([dlg EXCEPT !.end_reached = TRUE, !.page = Len(dlg.buf)], dlg.height))

text_up == Opened("text") /\ ~dlg.begin_reached /\ dlg' = print_page(back_lines(dlg, dlg.page_length + 1))

text_page_up == Opened("text") /\ ~dlg.begin_reached /\ dlg' = print_page(back_lines(dlg, dlg.page_length + dlg.height))

text_down == Opened("text") /\ ~dlg.end_reached /\ dlg' = print_page(back_lines(dlg, dlg.page_length - 1))

text_page_down == Opened("text") /\ ~dlg.end_reached /\ dlg' = print_page([dlg EXCEPT !.begin_reached = FALSE])

\* The page is printed again, shifted to the side.
text_shift == Opened("text") /\ \E hscroll \in {dlg.hscroll - 1, 0, dlg.hscroll + 1} \cap 0 .. MaxLen :
    /\ hscroll # dlg.hscroll
    /\ dlg' = print_page(back_lines([dlg EXCEPT !.hscroll = hscroll], dlg.page_length))

\* back_lines(height) is about the height of the whole box.
text_resize == \E height \in Heights :
    /\ Opened("text")
    /\ dlg' = print_page([back_lines(dlg, dlg.height + 4) EXCEPT !.height = height])

\* The lines before the page are counted for the next time.
TextLeft(t) == [t EXCEPT !.open = FALSE, !.vscroll = Cardinality(Behind(t, 0, t.page - 1))]

text_return == Opened("text") /\ dlg' = TextLeft(back_lines(dlg, dlg.page_length))

\* search_conf shows its results again.
text_again ==
    /\ dlg.kind = "text" /\ ~dlg.open
    /\ dialog_textbox(dlg.buf, dlg.marks, dlg.vscroll, dlg.hscroll)

-----------------------------------------------------------------------------
(***************************************************************************)
(* dialog_yesno                                                            *)
(***************************************************************************)
dialog_yesno == dlg' = [kind |-> "yesno", open |-> TRUE, button |-> 0, drawn |-> 0, resized |-> FALSE]

yesno_button == Opened("yesno") /\ Pressed(dlg, 2)

yesno_return == Opened("yesno") /\ dlg' = Closed(dlg)

yesno_resize == Opened("yesno") /\ dlg' = [dlg EXCEPT !.drawn = 0, !.resized = TRUE]

-----------------------------------------------------------------------------
NoDialog == [kind |-> "none", open |-> FALSE]

\* conf and its helpers show a box when none is open.
DialogOpen ==
    /\ dlg = NoDialog
    /\ \/ dialog_menu(0) \/ dialog_checklist \/ dialog_inputbox \/ dialog_yesno
       \/ \E n \in 1 .. MaxText : \E buf \in [1 .. n -> {"c", Newline}], marks \in BOOLEAN : dialog_textbox(buf, marks, 0, 0)

\* The box is closed, or the program has read past the end of its list and is gone.
end_dialog == dlg # NoDialog /\ (dlg.open => dlg.kind = "menu" /\ dlg.past) /\ dlg' = NoDialog

DialogInit == dlg = NoDialog

DialogNext ==
    \/ DialogOpen \/ end_dialog
    \/ menu_again \/ menu_move \/ menu_button \/ menu_return \/ menu_leave \/ menu_resize
    \/ list_move \/ list_button \/ list_return \/ list_resize
    \/ input_edit \/ input_button \/ input_return \/ input_resize
    \/ text_home \/ text_end \/ text_up \/ text_page_up \/ text_down \/ text_page_down \/ text_shift
    \/ text_resize \/ text_return \/ text_again
    \/ yesno_button \/ yesno_return \/ yesno_resize

-----------------------------------------------------------------------------
(***************************************************************************)
(* Properties                                                              *)
(***************************************************************************)

\* What is seen is what a key acts on.  Each row of a menu or a list shows the
\* item that is meant when the row is chosen, the highlighted row is the chosen
\* one, and no row is read past the end of the list; the highlighted button is
\* the one that Return presses.  Two cases are left out, in which the code
\* does otherwise: after a resize the first button is drawn while another
\* remains chosen, and a menu that was entered scrolled and is then resized is
\* printed from the old first_item.
ItemsShown ==
    dlg.open /\ dlg.kind # "text" =>
        /\ dlg.kind \in {"menu", "list"} /\ ~(dlg.resized /\ dlg.saved # 0) =>
              /\ ~dlg.past
              /\ \A r \in 0 .. MaxChoice(dlg) - 1 : dlg.screen[r] = dlg.scroll + r
              /\ dlg.lit = {dlg.choice} \cap 0 .. MaxChoice(dlg) - 1
              /\ dlg.count # 0 => dlg.choice \in 0 .. MaxChoice(dlg) - 1
        /\ ~dlg.resized => dlg.drawn = Max({0, dlg.button})

\* The input line is edited at the cursor: whatever keys came before, the string
\* is the one of a user who types between before and after, the position is the
\* column that is seen, and the cursor never leaves the box.
InputMeant ==
    dlg.kind = "input" =>
        /\ [i \in 1 .. dlg.len |-> dlg.instr[i - 1]] = dlg.before \o dlg.after
        /\ \A i \in dlg.len .. MaxLen : dlg.instr[i] = NUL
        /\ dlg.pos = Len(dlg.before) /\ dlg.pos = dlg.show_x + dlg.input_x
        /\ dlg.show_x >= 0 /\ dlg.input_x \in 0 .. BoxWidth - 1

\* What the boxes of lxdialog show is what the next key acts on.
BoxMeant == ItemsShown /\ InputMeant

Lines(t) == {0} \cup Behind(t, 0, Len(t.buf) - 1)

\* A text is paged by lines.  The page that is seen begins at a line; Down and Up
\* move it by one line, a shift to the side keeps it, and so does leaving the
\* text for an entry of the menu and coming back, although between two keys
\* only the end of the page is remembered.  The last line must end with a newline:
\* without one it is counted twice, and a shift moves the text.
TextMoves ==
    [][dlg.kind = "text" /\ Last(dlg.buf) = Newline =>
          /\ dlg'.kind = "text" => dlg'.top \in Lines(dlg)
          /\ text_shift => dlg'.top = dlg.top
          /\ text_up => dlg'.top = Max({p \in Lines(dlg) : p < dlg.top})
          /\ text_down => dlg'.top = Min({p \in Lines(dlg) : p > dlg.top})
          /\ text_again /\ dlg'.height = dlg.height => dlg'.top = dlg.top]_dlg
=============================================================================
