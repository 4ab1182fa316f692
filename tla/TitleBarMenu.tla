---------------------------- MODULE TitleBarMenu ----------------------------
(***************************************************************************)
(* The menu in the window (TitleBarMenu and its reducer): two paths, what  *)
(* is open and what is active, driven by the pointer, by keys that two     *)
(* handlers see, by the mnemonics and by the window.  What an item does is *)
(* Controls' and Preferences'; here an item is available or not, which the *)
(* viewer's state may change while its menu is open.                       *)
(***************************************************************************)
EXTENDS Integers, SequencesExt, Selection

VARIABLES
  bar,       \* menuState
  focusOn,   \* what has the focus: the page, an item, or a button of the bar
  before,    \* previousFocusRef
  available  \* the commands that are enabled

titleVars == <<bar, focusOn, before, available>>

\* The menus, with an item for each kind the desktop's model has.
TopLevel == <<"file", "record", "view">>
Contents ==
  [file |-> <<"exit">>, record |-> <<"start", "stop">>,
   view |-> <<"layout", "axes", "full-screen">>,
   layout |-> <<"combined", "panels">>, axes |-> <<"Fx">>]
Submenus == {"layout", "axes"}
Always   == {"exit", "combined", "panels", "Fx", "full-screen"}
-----------------------------------------------------------------------------
(* titlebar-menu-state.ts *)

Nothing == "none"
Closed  == [focused |-> Nothing, open |-> <<>>, active |-> <<>>, mnemonics |-> FALSE]

IsChain(path) ==
  \A i \in 2..Len(path) :
    path[i] \in Submenus \intersect ToSet(Contents[path[i - 1]])

ItemsAtPath(path) ==
  IF path # <<>> /\ IsChain(path) THEN Contents[Last(path)] ELSE <<>>

Focusable(path) ==
  LET items == ItemsAtPath(path)
  IN Keep(items, {i \in DOMAIN items : items[i] \in Submenus \union available})

\* A path and the first item there that can be chosen.
WithFirst(path) ==
  IF Focusable(path) = <<>> THEN path ELSE Append(path, Head(Focusable(path)))

\* What is a step away in a circle; what is not in it counts as its first.
Around(circle, from, direction) ==
  LET here == IF from \in ToSet(circle) THEN CHOOSE i \in DOMAIN circle : circle[i] = from
              ELSE 1
  IN circle[((here - 1 + direction + Len(circle)) % Len(circle)) + 1]

OpenMenu(b, menuId) ==
  [b EXCEPT !.focused = menuId, !.open = <<menuId>>, !.active = WithFirst(<<menuId>>)]

MoveTopLevel(b, direction) ==
  LET next == Around(TopLevel, b.focused, direction)
  IN IF b.open # <<>> THEN OpenMenu(b, next) ELSE [b EXCEPT !.focused = next]

MoveItem(b, direction) ==
  LET from == IF b.active = <<>> THEN Nothing ELSE Last(b.active)
  IN IF b.open = <<>> \/ Focusable(b.open) = <<>> THEN b
     ELSE [b EXCEPT !.active = Append(b.open, Around(Focusable(b.open), from, direction))]

OpenSubmenu(b) ==
  IF b.active # <<>> /\ Last(b.active) \in Submenus \intersect ToSet(ItemsAtPath(b.open))
  THEN LET path == Append(b.open, Last(b.active))
       IN [b EXCEPT !.open = path, !.active = WithFirst(path)]
  ELSE b

\* Mutant: what was active in the submenu stays active.
CloseSubmenu_active(b) ==
  IF Len(b.open) <= 1 THEN b ELSE [b EXCEPT !.open = Front(b.open)]

CloseSubmenu(b) ==
  IF Len(b.open) <= 1 THEN b
  ELSE [b EXCEPT !.open = Front(b.open), !.active = b.open]
-----------------------------------------------------------------------------
(* TitleBarMenu.tsx *)

Availabilities == {Always \union {"start"}, Always \union {"stop"}, Always}

TitleInit ==
  bar = Closed /\ focusOn = "page" /\ before = Nothing /\ available \in Availabilities

\* A dispatch, and the effect that gives the focus to the menu that has it.
Shows(b) ==
  /\ bar' = b
  /\ focusOn' = IF b.focused \notin {Nothing, bar.focused} THEN b.focused ELSE focusOn

CloseMenus(restoreFocus) ==
  /\ bar' = Closed /\ before' = Nothing
  /\ focusOn' = IF restoreFocus /\ before # Nothing THEN before
                ELSE IF focusOn = "item" THEN "page" ELSE focusOn
  /\ UNCHANGED available

\* openMenu, where the focus is by then on what was pressed.
OpensMenu(menuId, mnemonics, pressed) ==
  /\ before' = IF bar.open = <<>> THEN pressed ELSE before
  /\ bar' = OpenMenu([bar EXCEPT !.mnemonics = @ \/ mnemonics], menuId)
  /\ focusOn' = menuId
  /\ UNCHANGED available

\* activate, for an item that may be missing, a submenu or not enabled.
Activate(item) == item \in available /\ CloseMenus(FALSE)

\* An item that has an accelerator, open or not.
Accelerator == \E item \in {"start", "stop", "full-screen"} : Activate(item)

Mnemonic ==
  \/ \E m \in ToSet(TopLevel) : OpensMenu(m, TRUE, focusOn)
  \/ /\ Shows([bar EXCEPT !.focused = TopLevel[1], !.mnemonics = TRUE])
     /\ UNCHANGED <<before, available>>

\* An arrow is seen by the button that has the focus and then by the document,
\* which acts on what the first has made of the state.
Arrow ==
  \E key \in {"up", "down", "left", "right"} :
    LET step  == IF key \in {"left", "up"} THEN -1 ELSE 1
        b     == IF key \in {"left", "right"} /\ focusOn \in ToSet(TopLevel)
                 THEN MoveTopLevel(bar, step) ELSE bar
        onSub == b.active # <<>> /\ Last(b.active) \in Submenus
    IN /\ Shows(CASE b.open = <<>>             -> b
                  [] key \in {"up", "down"}    -> MoveItem(b, step)
                  [] key = "right" /\ onSub    -> OpenSubmenu(b)
                  [] key = "left" /\ Len(b.open) > 1 -> CloseSubmenu(b)
                  [] OTHER                     -> MoveTopLevel(b, step))
       /\ UNCHANGED <<before, available>>

\* Enter runs what is active; where nothing is open it presses the focused button.
Enter ==
  \/ bar.open # <<>> /\ Len(bar.active) > 1 /\ Activate(Last(bar.active))
  \/ bar.open = <<>> /\ focusOn \in ToSet(TopLevel) /\ OpensMenu(focusOn, FALSE, focusOn)

Escape == bar.open # <<>> /\ CloseMenus(TRUE)

OpenTop == IF bar.open = <<>> THEN Nothing ELSE bar.open[1]

\* A button of the bar: pointed at while another menu is open, or clicked.
TopLevelPointed ==
  \E m \in ToSet(TopLevel) :
    \/ OpenTop \notin {Nothing, m} /\ OpensMenu(m, FALSE, focusOn)
    \/ OpenTop # m /\ OpensMenu(m, FALSE, m)
    \/ OpenTop = m /\ CloseMenus(FALSE)

\* The items on the screen: of every open menu and submenu.
OnScreen == UNION {{Append(SubSeq(bar.open, 1, n), i) :
                      i \in ToSet(Contents[bar.open[n]])} : n \in 1..Len(bar.open)}

ItemPointed ==
  \E path \in OnScreen :
    /\ Last(path) \in Submenus \union available
    /\ LET b == [bar EXCEPT !.active = path]
       IN bar' = IF Last(path) \in Submenus THEN OpenSubmenu(b) ELSE b
    /\ focusOn' \in IF Last(path) \in Submenus THEN {focusOn, "item"} ELSE {focusOn}
    /\ UNCHANGED <<before, available>>

ItemClicked == \E path \in OnScreen : Activate(Last(path))

\* A press outside, which moves the focus, or the window loses it.
Left == \/ bar.open # <<>> /\ CloseMenus(FALSE)
        \/ bar.open = <<>> /\ focusOn' = "page" /\ UNCHANGED <<bar, before, available>>

Availability == available' \in Availabilities /\ UNCHANGED <<bar, focusOn, before>>

TitleNext == \/ Accelerator \/ Mnemonic \/ Arrow \/ Enter \/ Escape
             \/ TopLevelPointed \/ ItemPointed \/ ItemClicked \/ Left \/ Availability
-----------------------------------------------------------------------------
\* titlebar-menu-state.test.ts:54 and titlebar.test.tsx:100: whatever the pointer and
\* the keys have done in whichever order, the open menus are a chain from the bar
\* down, what is active, and Enter would run, is one of their items and on the screen, and
\* an open menu has somewhere to return the focus to.
ActiveIsOnScreen ==
  /\ IsChain(bar.open)
  /\ bar.active # <<>> => \/ bar.active \in OnScreen
                          \/ IsPrefix(bar.active, bar.open)
  /\ bar.open # <<>> <=> before # Nothing
=============================================================================
