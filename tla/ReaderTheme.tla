----------------------------- MODULE ReaderTheme -----------------------------
(***************************************************************************)
(* The theme, shared by tabs through local storage: hooks/useReaderTheme   *)
(* .ts (the settings of the reader and the stylesheet made of them),       *)
(* hooks/useShelfTheme.ts (the preset, for the shelf and the whole app),   *)
(* components/ThemeProvider.tsx and ThemeSettings.tsx, and the effects of  *)
(* the read page and of hooks/useFoliateView.ts that colour the browser's  *)
(* chrome and the text.                                                    *)
(*                                                                         *)
(* Of the settings, the preset and one number stand for all.  Only these   *)
(* hooks write the item, so it is JSON; a field that is missing is "" or   *)
(* 0.  A tab always shows the app; a book may be open in it.  Effects run  *)
(* after the render, those of the reader and of the app in either order.   *)
(***************************************************************************)
EXTENDS ClientEvents, FiniteSets

CONSTANTS Tabs, Presets, SizeMin, SizeMax, SizeDefault, Known
   \* Known: what an earlier session may have left: [preset, size] records

VARIABLES
    setting,   \* the item in local storage
    tabs       \* per tab: what its stores show, its effects to run, the document's root, the open book

themeVars == <<setting, tabs, events>>

(* A data attribute of the root that is not set. *)
NoPreset == "no preset"

ASSUME ThemeAssumption ==
    /\ SizeMin \in Nat \ {0} /\ SizeMax \in Nat /\ SizeDefault \in SizeMin .. SizeMax
    /\ Presets \subseteq STRING \ {NoPreset} /\ {"light", "dark"} \subseteq Presets
    /\ Known \subseteq [preset : STRING, size : Int]

DefaultReaderTheme == [preset |-> "light", size |-> SizeDefault]

Clamped(n) == IF n < SizeMin THEN SizeMin ELSE IF n > SizeMax THEN SizeMax ELSE n

(* normalizeReaderTheme: a number that is missing, or 0, is the default; the preset is left alone. *)
NormalizeReaderTheme(theme) ==
    [theme EXCEPT !.size = Clamped(IF theme.size = 0 THEN SizeDefault ELSE theme.size)]

(* readPresetFromStorage, else the default; readShelfTheme of the app comes to the same. *)
PresetOf(item) == IF item.preset \in Presets THEN item.preset ELSE DefaultReaderTheme.preset

(* getSnapshot: the defaults, with what the item has. *)
GetSnapshot(item) ==
    NormalizeReaderTheme([preset |-> PresetOf(item), size |-> IF item.size = 0 THEN SizeDefault ELSE item.size])

(* The stores of a tab read the item; effects are due when they show another theme. *)
AppReads(r, item) == [r EXCEPT !.app = PresetOf(item), !.missed = FALSE]
ReaderReads(r, item) ==
    IF ~r.reading THEN r
    ELSE [r EXCEPT !.theme = GetSnapshot(item), !.due = r.due \/ r.theme # GetSnapshot(item)]

(* A write is told to the stores of this tab at once and to the other tabs by an event. *)
Written(t, item) ==
    /\ setting' = item
    /\ tabs' = [u \in Tabs |-> IF u = t THEN ReaderReads(AppReads(tabs[u], item), item)
                               ELSE [tabs[u] EXCEPT !.told = TRUE]]

(***************************************************************************)
(* Colours                                                                 *)
(***************************************************************************)
PresetStyles(preset) == <<"paper", preset>>
ThemeColorForPreset(preset) == PresetStyles(preset)
ThemeColorForAppMode(isDark) == <<"app", isDark>>

(* getStylesheet: the colours of the preset, what is tinted otherwise at night, the sizes. *)
GetStylesheet(theme) ==
    [paper |-> PresetStyles(theme.preset), night |-> theme.preset = "dark", size |-> theme.size]
NoStyles == [paper |-> <<"app", FALSE>>, night |-> FALSE, size |-> 0]

(* cleanInlineStyles: a document has colours of its own overridden at night only. *)
CleanInlineStyles(theme) == theme.preset = "dark"

(***************************************************************************)
(* The open book                                                           *)
(***************************************************************************)
NoView == [stage |-> "none", styles |-> NoStyles, overridden |-> FALSE]

(* The page renders the snapshot, and the refs begin with it. *)
OpenBook(t) ==
    /\ tabs[t].listens /\ ~tabs[t].reading
    /\ tabs' = [tabs EXCEPT ![t] = [@ EXCEPT !.reading = TRUE, !.due = TRUE, !.view = NoView,
                                             !.theme = GetSnapshot(setting), !.ref = GetSnapshot(setting)]]
    /\ UNCHANGED setting

(* initReader, after view.open(): the stylesheet of the ref, not of a render. *)
ViewOpens(t) ==
    /\ tabs[t].reading /\ tabs[t].view.stage = "none"
    /\ tabs' = [tabs EXCEPT ![t].view = [@ EXCEPT !.stage = "opened", !.styles = GetStylesheet(tabs[t].ref)]]
    /\ UNCHANGED setting

(* The load event of a document, at first or when pages are turned. *)
DocumentLoads(t) ==
    /\ tabs[t].reading /\ tabs[t].view.stage # "none"
    /\ tabs' = [tabs EXCEPT ![t].view = [@ EXCEPT !.overridden = CleanInlineStyles(tabs[t].ref)]]
    /\ UNCHANGED setting

(* setReaderReady(true): a render, whose effects apply the theme. *)
ViewReady(t) ==
    /\ tabs[t].reading /\ tabs[t].view.stage = "opened"
    /\ tabs' = [tabs EXCEPT ![t] = [@ EXCEPT !.due = TRUE, !.view = [tabs[t].view EXCEPT !.stage = "ready"]]]
    /\ UNCHANGED setting

(* The effect of the read page on the chrome: its clean-up, then the colour of the preset. *)
ChromeOf(root, preset) ==
    IF root.active = preset THEN root
    ELSE [root EXCEPT !.active = preset, !.scheme = (preset = "dark"), !.color = ThemeColorForPreset(preset)]

(* The effects of useFoliateView: the styles of the view, the overrides of its document. *)
Styled(view, theme) ==
    IF view.stage # "ready" THEN view
    ELSE [view EXCEPT !.styles = GetStylesheet(theme), !.overridden = CleanInlineStyles(theme)]

(* The effects of a render of the read page: refs first. *)
ReaderEffect(t) ==
    /\ tabs[t].due
    /\ tabs' = [tabs EXCEPT ![t] = [@ EXCEPT !.due = FALSE, !.ref = tabs[t].theme,
                                             !.root = ChromeOf(tabs[t].root, tabs[t].theme.preset),
                                             !.view = Styled(tabs[t].view, tabs[t].theme)]]
    /\ UNCHANGED setting

(* The clean-up: back to the colour of the app, by its preset, else by the class of the root. *)
Restored(root) ==
    LET isDark == IF root.preset \in Presets THEN root.preset = "dark" ELSE root.dark
    IN  [root EXCEPT !.active = NoPreset, !.scheme = isDark, !.color = ThemeColorForAppMode(isDark)]

(* The page is left; an effect that has not run has nothing to clean up. *)
CloseBook(t) ==
    /\ tabs[t].reading
    /\ tabs' = [tabs EXCEPT ![t] = [@ EXCEPT !.reading = FALSE, !.due = FALSE, !.view = NoView,
                                             !.root = IF tabs[t].root.active = NoPreset THEN tabs[t].root
                                                      ELSE Restored(tabs[t].root)]]
    /\ UNCHANGED setting

(* Whatever the page renders for, it looks at the item. *)
Rerender(t) ==
    /\ tabs[t].reading /\ tabs[t].theme # GetSnapshot(setting)
    /\ tabs' = [tabs EXCEPT ![t] = ReaderReads(@, setting)]
    /\ UNCHANGED setting

(***************************************************************************)
(* The settings of the reader                                              *)
(***************************************************************************)

(* setTheme: the settings this tab shows, with the change. *)
SetTheme(t, changed) ==
    /\ tabs[t].reading
    /\ Written(t, NormalizeReaderTheme(changed))

(* The cards of the presets, the whole range of a slider, the button that resets. *)
ChoosePreset(t, p) == SetTheme(t, [tabs[t].theme EXCEPT !.preset = p])
SlideSize(t, n) == SetTheme(t, [tabs[t].theme EXCEPT !.size = n])
HandleResetTheme(t) == SetTheme(t, DefaultReaderTheme)

(***************************************************************************)
(* The app                                                                 *)
(***************************************************************************)

(* writeShelfThemePreset: what is stored now, with another preset. *)
WriteShelfThemePreset(t, preset) == Written(t, [setting EXCEPT !.preset = preset])

(* toggleTheme, on the shelf *)
ToggleTheme(t) ==
    /\ tabs[t].listens /\ ~tabs[t].reading
    /\ WriteShelfThemePreset(t, IF tabs[t].app = "dark" THEN "light" ELSE "dark")

(* The effect of ThemeProvider, after a render with another preset: an open book keeps its colour. *)
AppEffect(t) ==
    /\ tabs[t].root.preset # tabs[t].app
    /\ LET isDark == tabs[t].app = "dark"
           color == IF tabs[t].root.active # NoPreset THEN tabs[t].root.color ELSE ThemeColorForAppMode(isDark)
       IN  tabs' = [tabs EXCEPT ![t].root = [@ EXCEPT !.dark = isDark, !.preset = tabs[t].app,
                                                      !.scheme = isDark, !.color = color]]
    /\ UNCHANGED setting

(* The effect of useShelfTheme that listens; what was told before it is not heard. *)
Listen(t) ==
    /\ ~tabs[t].listens
    /\ tabs' = [tabs EXCEPT ![t].listens = TRUE]
    /\ UNCHANGED setting

(* Mutant: the app does not look again. *)
StorageEventReader(t) ==
    /\ tabs[t].told
    /\ tabs' = [tabs EXCEPT ![t] = [ReaderReads(@, setting) EXCEPT !.told = FALSE, !.missed = ~tabs[t].listens]]
    /\ UNCHANGED setting

(* The storage event of another tab's write: both stores read again. *)
StorageEvent(t) ==
    /\ tabs[t].told
    /\ LET r == [tabs[t] EXCEPT !.told = FALSE]
       IN  tabs' = [tabs EXCEPT ![t] = IF r.listens THEN ReaderReads(AppReads(r, setting), setting)
                                       ELSE [r EXCEPT !.missed = TRUE]]
    /\ UNCHANGED setting

(* A tab starts: it renders what is stored and is to listen next. *)
Started(item) ==
    [app |-> PresetOf(item), theme |-> GetSnapshot(item), ref |-> GetSnapshot(item),
     reading |-> FALSE, listens |-> FALSE, told |-> FALSE, missed |-> FALSE, due |-> FALSE, view |-> NoView,
     root |-> [dark |-> FALSE, preset |-> NoPreset, active |-> NoPreset, scheme |-> FALSE,
               color |-> ThemeColorForAppMode(FALSE)]]

OpenTab(t) == tabs' = [tabs EXCEPT ![t] = Started(setting)] /\ UNCHANGED setting

ThemeInit == setting \in Known /\ tabs = [t \in Tabs |-> Started(setting)]

ThemeExternal ==
    \E t \in Tabs : \/ OpenTab(t) \/ OpenBook(t) \/ CloseBook(t) \/ ToggleTheme(t) \/ HandleResetTheme(t)
                    \/ DocumentLoads(t)
                    \/ \E p \in Presets : ChoosePreset(t, p)
                    \/ \E n \in SizeMin .. SizeMax : SlideSize(t, n)
ThemeInternal ==
    \E t \in Tabs : Listen(t) \/ StorageEvent(t) \/ Rerender(t) \/ ViewOpens(t) \/ ViewReady(t)
                      \/ ReaderEffect(t) \/ AppEffect(t)
ThemeNext == (External /\ ThemeExternal) \/ (Internal /\ ThemeInternal)

(***************************************************************************)
(* Properties                                                              *)
(***************************************************************************)

(* Every tab that was told of the last write, and heard it, shows what is       *)
(* stored: the reader's settings and the app's preset do not drift apart.  A    *)
(* write between the first render of a tab and its effect is not heard.         *)
ThemesAgree ==
    \A t \in Tabs : (~tabs[t].told /\ ~tabs[t].missed) =>
        /\ tabs[t].app = PresetOf(setting)
        /\ tabs[t].reading => tabs[t].theme = GetSnapshot(setting)

(* A setting that is changed leaves the other as it was shown, also when the    *)
(* shelf of one tab and the reader of another change them in turn; a reader     *)
(* that has not yet heard of a write puts its own settings in the place of all. *)
OthersKept ==
    [][setting' # setting /\ (\A t \in Tabs : ~tabs[t].told) =>
          \/ PresetOf(setting') = PresetOf(setting)
          \/ GetSnapshot(setting').size = GetSnapshot(setting).size
          \/ setting' = DefaultReaderTheme]_themeVars

(* When no effect is to run, the browser's chrome has the colour of the open    *)
(* book's preset, and that of the app without one, whichever effect ran last;   *)
(* scroll bars and form controls are dark with them.                            *)
ChromeFollows ==
    \A t \in Tabs : LET r == tabs[t] IN
        (~r.due /\ r.root.preset = r.app) =>
            /\ r.root.color = IF r.reading THEN ThemeColorForPreset(r.theme.preset)
                              ELSE ThemeColorForAppMode(r.app = "dark")
            /\ (r.reading => r.theme.preset = r.app) => r.root.scheme = (r.app = "dark")

(* The text of a book that is ready has the stylesheet and the overrides of the *)
(* theme its reader shows, also when the theme changed, here or in another tab, *)
(* while the book was being opened or a document was being loaded.              *)
TextFollows ==
    \A t \in Tabs : LET r == tabs[t] IN
        (r.reading /\ ~r.due /\ r.view.stage = "ready") =>
            r.view.styles = GetStylesheet(r.theme) /\ r.view.overridden = CleanInlineStyles(r.theme)

(* Together: every tab shows the stored theme, in the page, in the text and in  *)
(* the chrome, and a change of one setting leaves the others.                   *)
ThemesSafe == [](ThemesAgree /\ ChromeFollows /\ TextFollows) /\ OthersKept
=============================================================================
